---------------------------- MODULE Spec2Model ----------------------------
(***************************************************************************)
(* Relay expression functors (src/relay/ir/expr_functor.cc):               *)
(*   ExprVisitor - read-only traversal with a per-instance visit counter,  *)
(*   ExprMutator - memoised functional rewrite with self return.           *)
(*                                                                         *)
(* The expression graph is a heap of immutable nodes addressed by identity *)
(* (their index in `heap`).  The recursion of VisitExpr / VisitExpr_ is    *)
(* unfolded into an explicit call stack, one frame per running handler,    *)
(* one step per call, hook invocation or return.                           *)
(***************************************************************************)
EXTENDS Naturals, Sequences, FiniteSets

(***************************************************************************)
(* Bounds of the model.                                                    *)
(***************************************************************************)
\* number of nodes of the source graph built before a pass runs
MaxNodes == 3
\* longest Tuple field list of a source node
MaxFields == 2
\* number of top-level visit / mutate calls the driver makes on one instance
MaxCalls == 2

(***************************************************************************)
(* Types (the external type sub-language), by identity.                    *)
(***************************************************************************)
\* an undefined (null) Type handle: no annotation / no return type
NoType == 0
\* a concrete source type and a source type variable
TensorT == 1
TypeVarT == 2
\* a rewriting type hook maps a source type to a new type object
TypeShift == 2
IsTypeVar(t) == t \in {TypeVarT, TypeVarT + TypeShift}

\* opaque attributes of a Function / Call built by the IR builder
SomeAttrs == "attrs"
OtherAttrs == "inline"

(***************************************************************************)
(* Array handles.  An Array is a reference to an array object; same_as     *)
(* compares the referenced object, not the elements.                       *)
(***************************************************************************)
MkArray(r, xs) == [ref |-> r, items |-> xs]
same_as(a, b) == a.ref = b.ref

(***************************************************************************)
(* Node constructors (one per kind), as records.                           *)
(***************************************************************************)
VarNode(name, ty) == [kind |-> "Var", name_hint |-> name, type_annotation |-> ty]
ConstantNode(d) == [kind |-> "Constant", data |-> d]
GlobalVarNode(name) == [kind |-> "GlobalVar", name_hint |-> name]
OpNode(name) == [kind |-> "Op", name |-> name]
TupleNode(fs) == [kind |-> "Tuple", fields |-> fs]
FunctionNode(ps, b, rt, tps, at) ==
    [kind |-> "Function", params |-> ps, body |-> b, ret_type |-> rt,
     type_params |-> tps, attrs |-> at]
CallNode(o, as, at, tas) ==
    [kind |-> "Call", op |-> o, args |-> as, attrs |-> at, type_args |-> tas]
LetNode(v, val, b) == [kind |-> "Let", var |-> v, value |-> val, body |-> b]
IfNode(c, t, f) == [kind |-> "If", cond |-> c, true_branch |-> t, false_branch |-> f]
TupleGetItemNode(t, i) == [kind |-> "TupleGetItem", tuple |-> t, index |-> i]


(***************************************************************************)
(* The source graphs a pass is run on: every heap of MaxNodes nodes whose  *)
(* children are older nodes (the IR is built bottom-up and is immutable,   *)
(* so it is a DAG), over all ten kinds.                                    *)
(***************************************************************************)
\* longest argument list of a Call and parameter list of a Function
MaxArgs == 1
\* longest type-argument list of a Call and type-parameter list of a Function
MaxTypeArgs == 1

SeqsUpTo(S, m) == UNION {[1..n -> S] : n \in 0..m}

\* the nodes the builder can construct on top of heap h; a Function built as
\* node i owns the array objects 2i-1 (type_params) and 2i (params)
NodeChoices(h) ==
    LET lower == 1..Len(h)
        vars == {i \in lower : h[i].kind = "Var"}
        me == Len(h) + 1
    IN  {VarNode("x", NoType), VarNode("y", TensorT),
         ConstantNode(1), ConstantNode(2), GlobalVarNode("g"), OpNode("add")}
        \cup {TupleNode(fs) : fs \in SeqsUpTo(lower, MaxFields)}
        \cup {FunctionNode(MkArray(2 * me, ps), b, tt[1],
                           MkArray(2 * me - 1, tt[2]), SomeAttrs) :
                ps \in SeqsUpTo(vars, MaxArgs), b \in lower,
                tt \in {<<NoType, <<>>>>} \cup
                       {<<TensorT, tps>> : tps \in SeqsUpTo({TypeVarT}, MaxTypeArgs)}}
        \cup {CallNode(o, as, SomeAttrs, tas) :
                o \in lower, as \in SeqsUpTo(lower, MaxArgs),
                tas \in SeqsUpTo({TensorT}, MaxTypeArgs)}
        \cup {LetNode(v, val, b) : v \in vars, val \in lower, b \in lower}
        \cup {IfNode(c, t, f) : c \in lower, t \in lower, f \in lower}
        \cup {TupleGetItemNode(t, i) : t \in lower, i \in {0, 1}}

RECURSIVE HeapsOfSize(_)
HeapsOfSize(n) ==
    IF n = 0 THEN {<<>>}
    ELSE UNION {{Append(h, nd) : nd \in NodeChoices(h)} : h \in HeapsOfSize(n - 1)}

SourceHeaps == HeapsOfSize(MaxNodes)

\* the graphs of the documented scenarios:
\*   shared = Constant(1); a = TupleGetItem(shared, 0); b = TupleGetItem(shared, 0);
\*   root = Tuple([a, b])
SharedExample ==
    <<ConstantNode(1), TupleGetItemNode(1, 0), TupleGetItemNode(1, 0), TupleNode(<<2, 3>>)>>
\*   lt = Let(var = x, value = Constant(1), body = Tuple([x, Constant(2)]))
LetExample ==
    <<VarNode("x", NoType), ConstantNode(1), ConstantNode(2), TupleNode(<<1, 3>>),
      LetNode(1, 2, 4)>>
\*   a Let whose body is a Function the pass has nothing to change in:
\*   Let(var = x, value = Constant(1), body = Function([x], x))
LetFunctionExample ==
    <<VarNode("x", NoType), ConstantNode(1),
      FunctionNode(MkArray(6, <<1>>), 1, NoType, MkArray(5, <<>>), SomeAttrs),
      LetNode(1, 2, 3)>>
\*   a Function of two parameters and a Call of it with two type arguments and
\*   two value arguments:  f = Function([x, y], x) : Tensor;  Call(f, [x, y])
CallFunctionExample ==
    <<VarNode("x", NoType), VarNode("y", TensorT),
      FunctionNode(MkArray(6, <<1, 2>>), 1, TensorT, MkArray(5, <<TypeVarT>>), OtherAttrs),
      CallNode(3, <<1, 2>>, SomeAttrs, <<TensorT, TypeVarT>>)>>
\*   a Let whose value is a compound expression without the variable:
\*   Let(var = x, value = TupleGetItem(Constant(1), 0), body = x)
LetValueExample ==
    <<VarNode("x", NoType), ConstantNode(1), TupleGetItemNode(2, 0), LetNode(1, 3, 1)>>
ExampleHeaps ==
    {SharedExample, LetExample, LetFunctionExample, CallFunctionExample, LetValueExample}

\* If(cond, t, f) over three distinct sub-expressions, each a Constant or a
\* projection out of an older one, so that any of the three may be a
\* sub-expression of another
IfArms ==
    {h \in SourceHeaps : \A i \in DOMAIN h :
        h[i] \in {ConstantNode(1)} \cup {TupleGetItemNode(j, 0) : j \in 1..(i - 1)}}
IfHeaps ==
    {Append(h, IfNode(c, t, f)) :
        h \in IfArms,
        c \in 1..MaxNodes, t \in 1..MaxNodes, f \in 1..MaxNodes}

\* the expression children of a node, in field order, with multiplicity
\* (the data model: which fields of a node hold Expr handles)
ExprChildren(nd) ==
    CASE nd.kind = "Tuple" -> nd.fields
      [] nd.kind = "Function" -> nd.params.items \o <<nd.body>>
      [] nd.kind = "Call" -> <<nd.op>> \o nd.args
      [] nd.kind = "Let" -> <<nd.var, nd.value, nd.body>>
      [] nd.kind = "If" -> <<nd.cond, nd.true_branch, nd.false_branch>>
      [] nd.kind = "TupleGetItem" -> <<nd.tuple>>
      [] OTHER -> <<>>

Range(s) == {s[i] : i \in DOMAIN s}

(***************************************************************************)
(* State.                                                                  *)
(***************************************************************************)
VARIABLES
    source,          \* the graph as the IR builder left it, before the pass ran
    heap,            \* all nodes built so far; heap[i] is the node of identity i
    arrays,          \* number of array objects allocated so far
    pass,            \* which functor runs, and the overrides of the concrete pass
    stack,           \* the handlers in progress, innermost last
    status,          \* "idle" | "running" | "aborted"
    roots,           \* the roots of the driver's calls on this instance, in order
    result,          \* what the driver's last completed call returned
    visit_counter_,  \* ExprVisitor::visit_counter_ : node identity -> count
    memo_,           \* ExprMutator::memo_ : source Expr -> rewritten Expr
    calls,           \* history: how often VisitExpr was invoked on each node
    runs,            \* history: how often VisitExpr_ (the handler) ran on each node
    order,           \* history: the nodes in the order their handlers started
    type_log,        \* history: the types passed to the type hook, in order
    events,          \* history: every VisitExpr / VisitType call, with its caller
    memo_writes,     \* history: how often memo_[n] was assigned
    made_by          \* history: new node -> the source node whose handler built it

vars == <<source, heap, arrays, pass, stack, status, roots, result, visit_counter_, memo_,
          calls, runs, order, type_log, events, memo_writes, made_by>>

SourceNodes == 1..Len(source)
\* an empty identity-keyed map, and a map extended / overwritten at one key
EmptyMap == [n \in {} |-> 0]
Put(m, k, v) == [n \in DOMAIN m \cup {k} |-> IF n = k THEN v ELSE m[n]]
\* a counter history bumped at one key
Bump(c, k) == [c EXCEPT ![k] = @ + 1]

Top(s) == s[Len(s)]
Pop(s) == SubSeq(s, 1, Len(s) - 1)
\* a handler asks for an expression child or a type; `cast` names a Downcast
ExprOp(x) == [k |-> "expr", x |-> x, cast |-> "none"]
TypeOp(t) == [k |-> "type", x |-> t, cast |-> "none"]
ExprOps(s) == [i \in 1..Len(s) |-> ExprOp(s[i])]
TypeOps(s) == [i \in 1..Len(s) |-> TypeOp(s[i])]

\* the call of VisitExpr (k = "expr") or VisitType (k = "type") on x made by the
\* innermost handler of stack s (caller 0: the driver)
Event(s, k, x) == [caller |-> IF s = <<>> THEN 0 ELSE Top(s).node, k |-> k, x |-> x]

InitCommon ==
    /\ source \in SourceHeaps \cup ExampleHeaps \cup IfHeaps
    /\ heap = source
    /\ arrays = 2 * Len(source)
    /\ stack = <<>>
    /\ status = "idle"
    /\ roots = <<>>
    /\ result = 0
    /\ visit_counter_ = EmptyMap
    /\ memo_ = EmptyMap
    /\ calls = [n \in SourceNodes |-> 0]
    /\ runs = [n \in SourceNodes |-> 0]
    /\ order = <<>>
    /\ type_log = <<>>
    /\ events = <<>>
    /\ memo_writes = [n \in SourceNodes |-> 0]
    /\ made_by = EmptyMap

(***************************************************************************)
(* ExprVisitor.                                                            *)
(***************************************************************************)
\* handlers that visit the children of an If and of a Call from the last to
\* the first
VisitorOps_Backwards(nd) ==
    CASE nd.kind = "Var" ->
            IF nd.type_annotation # NoType THEN <<TypeOp(nd.type_annotation)>> ELSE <<>>
      [] nd.kind = "Tuple" -> ExprOps(nd.fields)
      [] nd.kind = "Function" -> ExprOps(nd.params.items) \o <<ExprOp(nd.body)>>
      [] nd.kind = "Call" ->
            ExprOps(nd.args) \o TypeOps(nd.type_args) \o <<ExprOp(nd.op)>>
      [] nd.kind = "Let" -> <<ExprOp(nd.value), ExprOp(nd.var), ExprOp(nd.body)>>
      [] nd.kind = "If" ->
            <<ExprOp(nd.false_branch), ExprOp(nd.true_branch), ExprOp(nd.cond)>>
      [] nd.kind = "TupleGetItem" -> <<ExprOp(nd.tuple)>>
      [] OTHER -> <<>>

\* handlers of which the Function handler also passes the type parameters and
\* the return type to the type hook, as the mutator's does
VisitorOps_FunctionTypes(nd) ==
    CASE nd.kind = "Var" ->
            IF nd.type_annotation # NoType THEN <<TypeOp(nd.type_annotation)>> ELSE <<>>
      [] nd.kind = "Tuple" -> ExprOps(nd.fields)
      [] nd.kind = "Function" ->
            TypeOps(nd.type_params.items) \o ExprOps(nd.params.items)
            \o <<TypeOp(nd.ret_type), ExprOp(nd.body)>>
      [] nd.kind = "Call" ->
            <<ExprOp(nd.op)>> \o TypeOps(nd.type_args) \o ExprOps(nd.args)
      [] nd.kind = "Let" -> <<ExprOp(nd.value), ExprOp(nd.var), ExprOp(nd.body)>>
      [] nd.kind = "If" ->
            <<ExprOp(nd.cond), ExprOp(nd.true_branch), ExprOp(nd.false_branch)>>
      [] nd.kind = "TupleGetItem" -> <<ExprOp(nd.tuple)>>
      [] OTHER -> <<>>

\* what the default handler of a node does, in order (VisitExpr_ overloads)
VisitorOps(nd) ==
    CASE nd.kind = "Var" ->
            IF nd.type_annotation # NoType THEN <<TypeOp(nd.type_annotation)>> ELSE <<>>
      [] nd.kind = "Tuple" -> ExprOps(nd.fields)
      [] nd.kind = "Function" -> ExprOps(nd.params.items) \o <<ExprOp(nd.body)>>
      [] nd.kind = "Call" ->
            <<ExprOp(nd.op)>> \o TypeOps(nd.type_args) \o ExprOps(nd.args)
      [] nd.kind = "Let" -> <<ExprOp(nd.value), ExprOp(nd.var), ExprOp(nd.body)>>
      [] nd.kind = "If" ->
            <<ExprOp(nd.cond), ExprOp(nd.true_branch), ExprOp(nd.false_branch)>>
      [] nd.kind = "TupleGetItem" -> <<ExprOp(nd.tuple)>>
      [] OTHER -> <<>>

VFrame(n) == [node |-> n, pc |-> 1]
\* the caller resumes after the call it made
Advance(s) == IF s = <<>> THEN s ELSE [s EXCEPT ![Len(s)].pc = @ + 1]
\* the operation a handler with calls `ops` is about to perform at frame f
\* ("ret" when it has made them all)
FrameOp(ops, f) ==
    IF f.pc <= Len(ops) THEN ops[f.pc] ELSE [k |-> "ret", x |-> 0, cast |-> "none"]
VisitorCur == FrameOp(VisitorOps(heap[Top(stack).node]), Top(stack))

\* VisitExpr without the lookup in visit_counter_: the handler runs on every call
VisitorVisitExpr_NoDedup(x, s) ==
    /\ calls' = Bump(calls, x)
    /\ events' = Append(events, Event(s, "expr", x))
    /\ stack' = Append(s, VFrame(x))
    /\ status' = "running"
    /\ runs' = Bump(runs, x)
    /\ order' = Append(order, x)
    /\ UNCHANGED visit_counter_

\* VisitExpr that returns on a recorded node without counting the visit
VisitorVisitExpr_NoIncrement(x, s) ==
    /\ calls' = Bump(calls, x)
    /\ events' = Append(events, Event(s, "expr", x))
    /\ IF x \in DOMAIN visit_counter_
       THEN /\ stack' = Advance(s)
            /\ status' = IF s = <<>> THEN "idle" ELSE "running"
            /\ UNCHANGED <<runs, order, visit_counter_>>
       ELSE /\ stack' = Append(s, VFrame(x))
            /\ status' = "running"
            /\ runs' = Bump(runs, x)
            /\ order' = Append(order, x)
            /\ UNCHANGED visit_counter_

\* VisitExpr that records the node before its handler runs
VisitorVisitExpr_RecordFirst(x, s) ==
    /\ calls' = Bump(calls, x)
    /\ events' = Append(events, Event(s, "expr", x))
    /\ IF x \in DOMAIN visit_counter_
       THEN /\ visit_counter_' = [visit_counter_ EXCEPT ![x] = @ + 1]
            /\ stack' = Advance(s)
            /\ status' = IF s = <<>> THEN "idle" ELSE "running"
            /\ UNCHANGED <<runs, order>>
       ELSE /\ stack' = Append(s, VFrame(x))
            /\ status' = "running"
            /\ runs' = Bump(runs, x)
            /\ order' = Append(order, x)
            /\ visit_counter_' = Put(visit_counter_, x, 1)

\* ExprVisitor::VisitExpr(expr), called with `s` the stack of the caller
VisitorVisitExpr(x, s) ==
    /\ calls' = Bump(calls, x)
    /\ events' = Append(events, Event(s, "expr", x))
    /\ IF x \in DOMAIN visit_counter_
       THEN /\ visit_counter_' = [visit_counter_ EXCEPT ![x] = @ + 1]
            /\ stack' = Advance(s)
            /\ status' = IF s = <<>> THEN "idle" ELSE "running"
            /\ UNCHANGED <<runs, order>>
       ELSE /\ stack' = Append(s, VFrame(x))
            /\ status' = "running"
            /\ runs' = Bump(runs, x)
            /\ order' = Append(order, x)
            /\ UNCHANGED visit_counter_

\* the driver calls visit(r) on the instance
Visit(r) ==
    /\ pass.functor = "visitor"
    /\ status = "idle"
    /\ Len(roots) < MaxCalls
    /\ roots' = Append(roots, r)
    /\ VisitorVisitExpr(r, stack)
    /\ UNCHANGED <<source, heap, arrays, pass, result, memo_, type_log, memo_writes, made_by>>

\* a handler calls this->VisitExpr(child)
VisitChild ==
    /\ pass.functor = "visitor"
    /\ status = "running"
    /\ VisitorCur.k = "expr"
    /\ VisitorVisitExpr(VisitorCur.x, stack)
    /\ UNCHANGED <<source, heap, arrays, pass, roots, result, memo_, type_log, memo_writes, made_by>>

\* a handler calls this->VisitType(t): the default hook does nothing
VisitorVisitType ==
    /\ pass.functor = "visitor"
    /\ status = "running"
    /\ VisitorCur.k = "type"
    /\ type_log' = Append(type_log, VisitorCur.x)
    /\ events' = Append(events, Event(stack, "type", VisitorCur.x))
    /\ stack' = Advance(stack)
    /\ UNCHANGED <<source, heap, arrays, pass, status, roots, result, visit_counter_, memo_,
                   calls, runs, order, memo_writes, made_by>>

\* a handler returns; VisitExpr records the node and returns to its caller
VisitorReturn ==
    /\ pass.functor = "visitor"
    /\ status = "running"
    /\ VisitorCur.k = "ret"
    /\ LET n == Top(stack).node
       IN  visit_counter_' = IF n \in DOMAIN visit_counter_ THEN visit_counter_
                             ELSE Put(visit_counter_, n, 1)
    /\ stack' = Advance(Pop(stack))
    /\ status' = IF Len(stack) = 1 THEN "idle" ELSE "running"
    /\ UNCHANGED <<source, heap, arrays, pass, roots, result, memo_, calls, runs, order,
                   type_log, events, memo_writes, made_by>>

VisitorInit == InitCommon /\ pass = [functor |-> "visitor"]
VisitorNext == (\E r \in SourceNodes : Visit(r)) \/ VisitChild \/ VisitorVisitType \/ VisitorReturn
VisitorSpec == VisitorInit /\ [][VisitorNext]_vars

(***************************************************************************)
(* ExprMutator.                                                            *)
(***************************************************************************)
\* the concrete passes considered: the default mutator, and overrides of the
\* type hook, of the Constant handler and of the Var handler
MutatorPasses ==
    [functor : {"mutator"},
     type_hook : {"identity", "rewrite", "concretize"},
     on_constant : {"base", "replace"},
     on_var : {"base", "to_constant"}]

\* ExprMutator::VisitType and its overrides: the default returns t itself; a
\* rewriting hook returns a new type of the same sort; a concretizing hook
\* replaces every type by one new concrete type
VisitType(p, t) ==
    CASE p.type_hook = "identity" -> t
      [] p.type_hook = "rewrite" -> IF t = NoType THEN NoType ELSE t + TypeShift
      [] OTHER -> IF t = NoType THEN NoType ELSE TensorT + TypeShift

VarCast(x) == [k |-> "expr", x |-> x, cast |-> "Var"]
TypeVarCast(t) == [k |-> "type", x |-> t, cast |-> "TypeVar"]
VarCasts(s) == [i \in 1..Len(s) |-> VarCast(s[i])]
TypeVarCasts(s) == [i \in 1..Len(s) |-> TypeVarCast(s[i])]

\* handlers that take the rewritten parameters and the rewritten Let variable
\* as they come, without Downcast<Var>
MutatorOps_NoDowncast(p, nd) ==
    CASE nd.kind = "Var" ->
            IF p.on_var = "base" /\ nd.type_annotation # NoType
            THEN <<TypeOp(nd.type_annotation)>> ELSE <<>>
      [] nd.kind = "Tuple" -> ExprOps(nd.fields)
      [] nd.kind = "Function" ->
            TypeVarCasts(nd.type_params.items) \o ExprOps(nd.params.items)
            \o <<TypeOp(nd.ret_type), ExprOp(nd.body)>>
      [] nd.kind = "Call" ->
            <<ExprOp(nd.op)>> \o TypeOps(nd.type_args) \o ExprOps(nd.args)
      [] nd.kind = "Let" -> <<ExprOp(nd.var), ExprOp(nd.value), ExprOp(nd.body)>>
      [] nd.kind = "If" ->
            <<ExprOp(nd.cond), ExprOp(nd.true_branch), ExprOp(nd.false_branch)>>
      [] nd.kind = "TupleGetItem" -> <<ExprOp(nd.tuple)>>
      [] OTHER -> <<>>

\* handlers of which the Let handler rewrites the value before the variable
MutatorOps_LetValueFirst(p, nd) ==
    CASE nd.kind = "Var" ->
            IF p.on_var = "base" /\ nd.type_annotation # NoType
            THEN <<TypeOp(nd.type_annotation)>> ELSE <<>>
      [] nd.kind = "Tuple" -> ExprOps(nd.fields)
      [] nd.kind = "Function" ->
            TypeVarCasts(nd.type_params.items) \o VarCasts(nd.params.items)
            \o <<TypeOp(nd.ret_type), ExprOp(nd.body)>>
      [] nd.kind = "Call" ->
            <<ExprOp(nd.op)>> \o TypeOps(nd.type_args) \o ExprOps(nd.args)
      [] nd.kind = "Let" -> <<ExprOp(nd.value), ExprOp(nd.var), ExprOp(nd.body)>>
      [] nd.kind = "If" ->
            <<ExprOp(nd.cond), ExprOp(nd.true_branch), ExprOp(nd.false_branch)>>
      [] nd.kind = "TupleGetItem" -> <<ExprOp(nd.tuple)>>
      [] OTHER -> <<>>

\* the calls the handler of a node makes, in order (VisitExpr_ overloads)
MutatorOps(p, nd) ==
    CASE nd.kind = "Var" ->
            IF p.on_var = "base" /\ nd.type_annotation # NoType
            THEN <<TypeOp(nd.type_annotation)>> ELSE <<>>
      [] nd.kind = "Tuple" -> ExprOps(nd.fields)
      [] nd.kind = "Function" ->
            TypeVarCasts(nd.type_params.items) \o VarCasts(nd.params.items)
            \o <<TypeOp(nd.ret_type), ExprOp(nd.body)>>
      [] nd.kind = "Call" ->
            <<ExprOp(nd.op)>> \o TypeOps(nd.type_args) \o ExprOps(nd.args)
      [] nd.kind = "Let" -> <<VarCast(nd.var), ExprOp(nd.value), ExprOp(nd.body)>>
      [] nd.kind = "If" ->
            <<ExprOp(nd.cond), ExprOp(nd.true_branch), ExprOp(nd.false_branch)>>
      [] nd.kind = "TupleGetItem" -> <<ExprOp(nd.tuple)>>
      [] OTHER -> <<>>

Self == [same |-> TRUE]
Make(nd) == [same |-> FALSE, node |-> nd]
AllSame(a, b) == \A i \in DOMAIN a : a[i] = b[i]

\* VisitExpr_(const VarNode*)
MutateVar(p, nd, res) ==
    IF p.on_var = "to_constant" THEN Make(ConstantNode(0))
    ELSE IF nd.type_annotation # NoType /\ res[1] # nd.type_annotation
         THEN Make(VarNode(nd.name_hint, res[1]))
         ELSE Self

\* VisitExpr_(const ConstantNode*), and an override replacing the literal 1
MutateConstant(p, nd) ==
    IF p.on_constant = "replace" /\ nd.data = 1 THEN Make(ConstantNode(42)) ELSE Self

\* a Tuple handler without self return
MutateTuple_AlwaysRebuild(nd, res) == Make(TupleNode(res))

\* VisitExpr_(const TupleNode*)
MutateTuple(nd, res) ==
    LET all_fields_unchanged == AllSame(res, nd.fields)
    IN  IF all_fields_unchanged THEN Self ELSE Make(TupleNode(res))

\* VisitExpr_(const FunctionNode*): ty_params and params are arrays declared in
\* the handler, hence new array objects
MutateFunction(nd, res, fresh) ==
    LET ntp == Len(nd.type_params.items)
        np == Len(nd.params.items)
        ty_params == MkArray(fresh + 1, SubSeq(res, 1, ntp))
        params == MkArray(fresh + 2, SubSeq(res, ntp + 1, ntp + np))
        ret_type == res[ntp + np + 1]
        body == res[ntp + np + 2]
    IN  IF /\ same_as(ty_params, nd.type_params)
           /\ same_as(params, nd.params)
           /\ ret_type = nd.ret_type
           /\ body = nd.body
        THEN Self
        ELSE Make(FunctionNode(params, body, ret_type, ty_params, nd.attrs))

\* a Call handler that does not compare the type arguments
MutateCall_IgnoreTypeArgs(nd, res) ==
    LET nta == Len(nd.type_args)
        new_op == res[1]
        ty_args == SubSeq(res, 2, nta + 1)
        call_args == SubSeq(res, nta + 2, Len(res))
        unchanged == nd.op = new_op /\ AllSame(call_args, nd.args)
    IN  IF unchanged THEN Self ELSE Make(CallNode(new_op, call_args, nd.attrs, ty_args))

\* VisitExpr_(const CallNode*)
MutateCall(nd, res) ==
    LET nta == Len(nd.type_args)
        new_op == res[1]
        ty_args == SubSeq(res, 2, nta + 1)
        call_args == SubSeq(res, nta + 2, Len(res))
        unchanged == /\ nd.op = new_op
                     /\ AllSame(ty_args, nd.type_args)
                     /\ AllSame(call_args, nd.args)
    IN  IF unchanged THEN Self ELSE Make(CallNode(new_op, call_args, nd.attrs, ty_args))

\* VisitExpr_(const LetNode*)
MutateLet(nd, res) ==
    IF res[1] = nd.var /\ res[2] = nd.value /\ res[3] = nd.body
    THEN Self ELSE Make(LetNode(res[1], res[2], res[3]))

\* VisitExpr_(const IfNode*)
MutateIf(nd, res) ==
    IF nd.cond = res[1] /\ nd.true_branch = res[2] /\ nd.false_branch = res[3]
    THEN Self ELSE Make(IfNode(res[1], res[2], res[3]))

\* a TupleGetItem handler that rebuilds with index 0
MutateTupleGetItem_FirstField(nd, res) ==
    IF nd.tuple = res[1] THEN Self ELSE Make(TupleGetItemNode(res[1], 0))

\* VisitExpr_(const TupleGetItemNode*)
MutateTupleGetItem(nd, res) ==
    IF nd.tuple = res[1] THEN Self ELSE Make(TupleGetItemNode(res[1], nd.index))

\* what the handler of node nd returns once its calls returned `res`
Rewrite(p, nd, res, fresh) ==
    CASE nd.kind = "Var" -> MutateVar(p, nd, res)
      [] nd.kind = "Constant" -> MutateConstant(p, nd)
      [] nd.kind = "Tuple" -> MutateTuple(nd, res)
      [] nd.kind = "Function" -> MutateFunction(nd, res, fresh)
      [] nd.kind = "Call" -> MutateCall(nd, res)
      [] nd.kind = "Let" -> MutateLet(nd, res)
      [] nd.kind = "If" -> MutateIf(nd, res)
      [] nd.kind = "TupleGetItem" -> MutateTupleGetItem(nd, res)
      [] OTHER -> Self

MFrame(n) == [node |-> n, pc |-> 1, res |-> <<>>]
MutatorCur == FrameOp(MutatorOps(pass, heap[Top(stack).node]), Top(stack))

\* a call made by the innermost handler of stack s returns v to it (to the
\* driver when s is empty); ok is whether the Downcast at the call site, if
\* any, succeeds.  A failed Downcast is fatal: nothing runs after it.
Deliver(s, v, ok) ==
    IF s = <<>>
    THEN /\ stack' = s
         /\ status' = "idle"
         /\ result' = v
    ELSE IF ~ok
    THEN /\ stack' = s
         /\ status' = "aborted"
         /\ UNCHANGED result
    ELSE /\ stack' = [s EXCEPT ![Len(s)] = [@ EXCEPT !.pc = @ + 1, !.res = Append(@, v)]]
         /\ status' = "running"
         /\ UNCHANGED result

\* Downcast<T>(ref) at a call site: succeeds iff the value is a T (no cast: always)
DowncastOk(cast, kd) == cast = "none" \/ cast = kd

\* whether expression v (of kind kd) passes the Downcast, if any, at the call
\* site that the innermost handler of s is at
CastOk(s, kd) ==
    \/ s = <<>>
    \/ DowncastOk(FrameOp(MutatorOps(pass, heap[Top(s).node]), Top(s)).cast, kd)

\* VisitExpr without the lookup in memo_: every call computes the rewrite
MutatorVisitExpr_NoMemo(x, s) ==
    /\ calls' = Bump(calls, x)
    /\ events' = Append(events, Event(s, "expr", x))
    /\ stack' = Append(s, MFrame(x))
    /\ status' = "running"
    /\ runs' = Bump(runs, x)
    /\ order' = Append(order, x)
    /\ UNCHANGED result

\* ExprMutator::VisitExpr(expr), called with `s` the stack of the caller
MutatorVisitExpr(x, s) ==
    /\ calls' = Bump(calls, x)
    /\ events' = Append(events, Event(s, "expr", x))
    /\ IF x \in DOMAIN memo_
       THEN /\ Deliver(s, memo_[x], CastOk(s, heap[memo_[x]].kind))
            /\ UNCHANGED <<runs, order>>
       ELSE /\ stack' = Append(s, MFrame(x))
            /\ status' = "running"
            /\ runs' = Bump(runs, x)
            /\ order' = Append(order, x)
            /\ UNCHANGED result

\* the driver calls Mutate(r) on the instance
Mutate(r) ==
    /\ pass.functor = "mutator"
    /\ status = "idle"
    /\ Len(roots) < MaxCalls
    /\ roots' = Append(roots, r)
    /\ MutatorVisitExpr(r, stack)
    /\ UNCHANGED <<source, heap, arrays, pass, visit_counter_, memo_, type_log, memo_writes,
                   made_by>>

\* a handler calls this->Mutate(child)
MutateChild ==
    /\ pass.functor = "mutator"
    /\ status = "running"
    /\ MutatorCur.k = "expr"
    /\ MutatorVisitExpr(MutatorCur.x, stack)
    /\ UNCHANGED <<source, heap, arrays, pass, roots, visit_counter_, memo_, type_log,
                   memo_writes, made_by>>

\* a handler calls this->VisitType(t), with a Downcast<TypeVar> for a type
\* parameter
MutatorVisitType ==
    /\ pass.functor = "mutator"
    /\ status = "running"
    /\ MutatorCur.k = "type"
    /\ LET t == VisitType(pass, MutatorCur.x)
       IN  /\ type_log' = Append(type_log, MutatorCur.x)
           /\ events' = Append(events, Event(stack, "type", MutatorCur.x))
           /\ Deliver(stack, t, DowncastOk(MutatorCur.cast,
                                            IF IsTypeVar(t) THEN "TypeVar" ELSE "Type"))
    /\ UNCHANGED <<source, heap, arrays, pass, roots, visit_counter_, memo_, calls, runs,
                   order, memo_writes, made_by>>

\* a handler that writes its result over the node it was called on instead
\* of building a new node
MutatorReturn_InPlace ==
    /\ pass.functor = "mutator"
    /\ status = "running"
    /\ MutatorCur.k = "ret"
    /\ LET n == Top(stack).node
           rw == Rewrite(pass, heap[n], Top(stack).res, arrays)
           kd == IF rw.same THEN heap[n].kind ELSE rw.node.kind
       IN  /\ heap' = IF rw.same THEN heap ELSE [heap EXCEPT ![n] = rw.node]
           /\ arrays' = IF heap[n].kind = "Function" THEN arrays + 2 ELSE arrays
           /\ memo_' = Put(memo_, n, n)
           /\ memo_writes' = Bump(memo_writes, n)
           /\ Deliver(Pop(stack), n, CastOk(Pop(stack), kd))
    /\ UNCHANGED <<source, pass, roots, visit_counter_, calls, runs, order, type_log,
                   events, made_by>>

\* a VisitExpr whose result is checked by the caller's Downcast before it is
\* stored in the memo
MutatorReturn_CastBeforeMemo ==
    /\ pass.functor = "mutator"
    /\ status = "running"
    /\ MutatorCur.k = "ret"
    /\ LET n == Top(stack).node
           rw == Rewrite(pass, heap[n], Top(stack).res, arrays)
           new_expr == IF rw.same THEN n ELSE Len(heap) + 1
           kd == IF rw.same THEN heap[n].kind ELSE rw.node.kind
           ok == CastOk(Pop(stack), kd)
       IN  /\ heap' = IF rw.same THEN heap ELSE Append(heap, rw.node)
           /\ made_by' = IF rw.same THEN made_by ELSE Put(made_by, new_expr, n)
           /\ arrays' = IF heap[n].kind = "Function" THEN arrays + 2 ELSE arrays
           /\ memo_' = IF ok THEN Put(memo_, n, new_expr) ELSE memo_
           /\ memo_writes' = IF ok THEN Bump(memo_writes, n) ELSE memo_writes
           /\ Deliver(Pop(stack), new_expr, ok)
    /\ UNCHANGED <<source, pass, roots, visit_counter_, calls, runs, order, type_log,
                   events>>

\* a handler returns new_expr; VisitExpr stores it in the memo under the
\* original expr and returns it to its caller
MutatorReturn ==
    /\ pass.functor = "mutator"
    /\ status = "running"
    /\ MutatorCur.k = "ret"
    /\ LET n == Top(stack).node
           rw == Rewrite(pass, heap[n], Top(stack).res, arrays)
           new_expr == IF rw.same THEN n ELSE Len(heap) + 1
           kd == IF rw.same THEN heap[n].kind ELSE rw.node.kind
       IN  /\ heap' = IF rw.same THEN heap ELSE Append(heap, rw.node)
           /\ made_by' = IF rw.same THEN made_by ELSE Put(made_by, new_expr, n)
           /\ arrays' = IF heap[n].kind = "Function" THEN arrays + 2 ELSE arrays
           /\ memo_' = Put(memo_, n, new_expr)
           /\ memo_writes' = Bump(memo_writes, n)
           /\ Deliver(Pop(stack), new_expr, CastOk(Pop(stack), kd))
    /\ UNCHANGED <<source, pass, roots, visit_counter_, calls, runs, order, type_log,
                   events>>

MutatorInit == InitCommon /\ pass \in MutatorPasses
MutatorNext ==
    (\E r \in SourceNodes : Mutate(r)) \/ MutateChild \/ MutatorVisitType \/ MutatorReturn
MutatorSpec == MutatorInit /\ [][MutatorNext]_vars

\* either functor, one instance per behaviour
Init == VisitorInit \/ MutatorInit
Next == VisitorNext \/ MutatorNext
Spec == Init /\ [][Next]_vars

\* the default handlers only: a visitor, or a mutator without overrides
DefaultInit ==
    \/ VisitorInit
    \/ MutatorInit /\ pass = [functor |-> "mutator", type_hook |-> "identity",
                               on_constant |-> "base", on_var |-> "base"]
\* a call in progress runs on: the handlers are straight-line code and loops
\* over finite arrays, so the next call or return of the innermost handler
\* eventually happens; the driver is free never to call again
HandlerStep ==
    VisitChild \/ VisitorVisitType \/ VisitorReturn
    \/ MutateChild \/ MutatorVisitType \/ MutatorReturn
FairSpec == DefaultInit /\ [][Next]_vars /\ WF_vars(HandlerStep)

(***************************************************************************)
(* Graph notions used by the properties.                                   *)
(***************************************************************************)
\* the nodes reachable from r in the source graph (children are older nodes)
RECURSIVE ReachFrom(_)
ReachFrom(r) == {r} \cup UNION {ReachFrom(c) : c \in Range(ExprChildren(source[r]))}
\* the nodes reachable from a root the driver has passed so far
Reached == UNION {ReachFrom(roots[i]) : i \in DOMAIN roots}
\* how often n occurs in a child list
Occurrences(n, ch) == Cardinality({i \in DOMAIN ch : ch[i] = n})
\* the child edges into n, with multiplicity, from the parents in P among 1..k
RECURSIVE EdgesInto(_, _, _)
EdgesInto(n, P, k) ==
    IF k = 0 THEN 0
    ELSE (IF k \in P THEN Occurrences(n, ExprChildren(source[k])) ELSE 0)
         + EdgesInto(n, P, k - 1)
TimesRoot(n) == Cardinality({i \in DOMAIN roots : roots[i] = n})
IsVisitor == pass.functor = "visitor"
IsMutator == pass.functor = "mutator"

(***************************************************************************)
(* C1.  ExprVisitor: within one visitor instance the kind-specific handler *)
(* runs exactly once for every distinct node reachable from the roots      *)
(* visited (never twice, whatever the in-degree, and not at all for other  *)
(* nodes); a visit of a node already in visit_counter_ only increments its *)
(* counter: no handler runs and no child is descended into.                *)
(***************************************************************************)
C1_HandlerOnce ==
    IsVisitor =>
        \A n \in SourceNodes :
            /\ runs[n] <= 1
            /\ status = "idle" => runs[n] = IF n \in Reached THEN 1 ELSE 0
C1_SeenStep ==
    \A x \in DOMAIN visit_counter_ :
        (IsVisitor /\ calls'[x] # calls[x]) =>
            /\ visit_counter_' = [visit_counter_ EXCEPT ![x] = @ + 1]
            /\ runs' = runs
            /\ order' = order
            /\ stack' = Advance(stack)
C1_VisitorEachNodeOnce == [](C1_HandlerOnce) /\ [][C1_SeenStep]_vars
\* a finished visit in which a node other than the root was visited at least
\* twice and handled once
C1_Witness ==
    /\ IsVisitor /\ status = "idle" /\ Len(roots) = 1
    /\ \E n \in Reached : n # roots[1] /\ calls[n] >= 2 /\ runs[n] = 1

(***************************************************************************)
(* C10.  Visitor fan-in counter: once the visits have completed, the       *)
(* recorded nodes are the reachable ones and the counter of each equals    *)
(* the number of times VisitExpr was invoked on it, which is the number of *)
(* child edges into it (with multiplicity) from reachable parents plus the *)
(* number of times it was passed as the root.  For the Constant shared by  *)
(* two TupleGetItem parents the counter is 2 while its handler ran once.   *)
(***************************************************************************)
C10_FanInCounter ==
    (IsVisitor /\ status = "idle") =>
        /\ DOMAIN visit_counter_ = Reached
        /\ \A n \in Reached :
            /\ visit_counter_[n] = calls[n]
            /\ visit_counter_[n] = EdgesInto(n, Reached, Len(source)) + TimesRoot(n)
        /\ (source = SharedExample /\ roots = <<4>>) =>
              visit_counter_[1] = 2 /\ runs[1] = 1
C10_Witness ==
    /\ IsVisitor /\ status = "idle"
    /\ source = SharedExample /\ roots = <<4>>
    /\ 1 \in DOMAIN visit_counter_ /\ visit_counter_[1] = 2 /\ runs[1] = 1

(***************************************************************************)
(* Notions used by the mutator's properties.                               *)
(***************************************************************************)
DefaultPass ==
    pass = [functor |-> "mutator", type_hook |-> "identity",
            on_constant |-> "base", on_var |-> "base"]
\* the type arguments of a Call (no other kind of the five below has types)
TypeArgs(nd) == IF nd.kind = "Call" THEN nd.type_args ELSE <<>>
\* the rewritten children of a node whose children are all in the memo
RewrittenChildren(nd) == [i \in DOMAIN ExprChildren(nd) |-> memo_[ExprChildren(nd)[i]]]
RewrittenTypes(ts) == [i \in DOMAIN ts |-> VisitType(pass, ts[i])]
ChildrenInMemo(nd) == Range(ExprChildren(nd)) \subseteq DOMAIN memo_
IsNew(e) == e > Len(source)
LastRoot == roots[Len(roots)]

(***************************************************************************)
(* C2.  ExprMutator: within one mutator instance the handler of a source   *)
(* node runs at most once; a Mutate call on a node already in the memo     *)
(* returns the cached result to its caller without running a handler,      *)
(* descending, building a node or touching the memo.  The Constant shared  *)
(* by two TupleGetItem parents is rewritten exactly once.                  *)
(***************************************************************************)
C2_HandlerAtMostOnce ==
    IsMutator =>
        /\ \A n \in SourceNodes : runs[n] <= 1
        /\ (source = SharedExample /\ roots = <<4>> /\ status = "idle") =>
              runs[1] = 1 /\ calls[1] = 2
C2_CachedStep ==
    \A x \in DOMAIN memo_ :
        (IsMutator /\ calls'[x] # calls[x]) =>
            /\ runs' = runs /\ order' = order /\ type_log' = type_log
            /\ heap' = heap /\ memo_' = memo_ /\ memo_writes' = memo_writes
            /\ IF stack = <<>>
               THEN stack' = stack /\ result' = memo_[x]
               ELSE \/ status' = "aborted" /\ stack' = stack
                    \/ /\ Len(stack') = Len(stack)
                       /\ SubSeq(stack', 1, Len(stack) - 1) = SubSeq(stack, 1, Len(stack) - 1)
                       /\ Top(stack').node = Top(stack).node
                       /\ Top(stack').res = Append(Top(stack).res, memo_[x])
\* the cached result is the first result: an entry, once written, stays
C2_FirstResultKept ==
    \A x \in DOMAIN memo_ : x \in DOMAIN memo_' /\ memo_'[x] = memo_[x]
C2_MutatorRewriteOnce ==
    [](C2_HandlerAtMostOnce) /\ [][C2_CachedStep /\ C2_FirstResultKept]_vars
C2_Witness ==
    /\ IsMutator /\ status = "idle"
    /\ source = SharedExample /\ roots = <<4>>
    /\ calls[1] = 2 /\ runs[1] = 1 /\ result = 4

(***************************************************************************)
(* C3.  Identity idempotence (as claimed): with the default ExprMutator,   *)
(* mutating any root returns the root itself and constructs no node.       *)
(***************************************************************************)
C3_IdentityIdempotence ==
    (DefaultPass /\ status = "idle" /\ roots # <<>>) =>
        result = LastRoot /\ heap = source

(***************************************************************************)
(* C4.  Function rewrite (as claimed): the default Function handler        *)
(* returns the original Function exactly when every rewritten type         *)
(* parameter, every rewritten parameter, the rewritten return type and the *)
(* rewritten body are identity-equal to the originals.                     *)
(***************************************************************************)
FunctionGroupsUnchanged(nd) ==
    /\ RewrittenTypes(nd.type_params.items) = nd.type_params.items
    /\ \A i \in DOMAIN nd.params.items : memo_[nd.params.items[i]] = nd.params.items[i]
    /\ VisitType(pass, nd.ret_type) = nd.ret_type
    /\ memo_[nd.body] = nd.body
C4_FunctionRebuildIff ==
    IsMutator =>
        \A n \in DOMAIN memo_ :
            source[n].kind = "Function" =>
                (memo_[n] = n <=> FunctionGroupsUnchanged(source[n]))

(***************************************************************************)
(* C5.  Structural sharing for Tuple, Call, Let, If and TupleGetItem: the  *)
(* handler's result is the original node if every rewritten child (and,    *)
(* for Call, every rewritten type argument) is identity-equal to the       *)
(* original, and otherwise a node newly built by that handler, of the same *)
(* kind, carrying the rewritten children and type arguments.               *)
(***************************************************************************)
SharingKinds == {"Tuple", "Call", "Let", "If", "TupleGetItem"}
C5_StructuralSharing ==
    IsMutator =>
        \A n \in DOMAIN memo_ :
            source[n].kind \in SharingKinds =>
                /\ ChildrenInMemo(source[n])
                /\ LET nd == source[n]
                       rc == RewrittenChildren(nd)
                       rt == RewrittenTypes(TypeArgs(nd))
                   IN  IF rc = ExprChildren(nd) /\ rt = TypeArgs(nd)
                       THEN memo_[n] = n
                       ELSE /\ IsNew(memo_[n])
                            /\ memo_[n] \in DOMAIN made_by /\ made_by[memo_[n]] = n
                            /\ heap[memo_[n]].kind = nd.kind
                            /\ ExprChildren(heap[memo_[n]]) = rc
                            /\ TypeArgs(heap[memo_[n]]) = rt
\* a Call rebuilt although its callee and arguments are unchanged: only a
\* type argument differs
C5_Witness ==
    /\ IsMutator
    /\ \E n \in DOMAIN memo_ :
        /\ source[n].kind = "Call" /\ source[n].type_args # <<>>
        /\ RewrittenChildren(source[n]) = ExprChildren(source[n])
        /\ IsNew(memo_[n]) /\ heap[memo_[n]].type_args # source[n].type_args

(***************************************************************************)
(* C6.  Sharing is preserved in the output: one mutator instance never     *)
(* builds two replacements for the same source node, and every node it     *)
(* builds references, in each child slot, the one recorded rewrite of the  *)
(* corresponding source child; so a rewritten Var used as a binder and in  *)
(* later uses is the same new Var everywhere.                              *)
(***************************************************************************)
C6_SharingPreserved ==
    IsMutator =>
        /\ \A m1, m2 \in DOMAIN made_by : made_by[m1] = made_by[m2] => m1 = m2
        /\ \A m \in DOMAIN made_by :
              LET ch == ExprChildren(source[made_by[m]])
              IN  \A i \in DOMAIN ch :
                      /\ ch[i] \in DOMAIN memo_
                      /\ ExprChildren(heap[m])[i] = memo_[ch[i]]
\* a Let whose binder is also its body, rebuilt around the one new Var
C6_Witness ==
    /\ IsMutator
    /\ \E n \in DOMAIN memo_ :
        /\ source[n].kind = "Let" /\ source[n].var = source[n].body
        /\ IsNew(memo_[source[n].var])
        /\ IsNew(memo_[n])
        /\ heap[memo_[n]].var = memo_[source[n].var]
        /\ heap[memo_[n]].body = memo_[source[n].var]

(***************************************************************************)
(* C7.  Sharing preservation for an unchanged shared child: for            *)
(* t = Tuple([c, c]) with one Constant c that the pass leaves unchanged,   *)
(* Mutate(t) on a fresh instance returns t itself, and the memo holds the  *)
(* entry c -> c, written once, although Mutate was called on c twice.      *)
(***************************************************************************)
IsPairOfOneConstant(t) ==
    /\ source[t].kind = "Tuple" /\ Len(source[t].fields) = 2
    /\ source[t].fields[1] = source[t].fields[2]
    /\ source[source[t].fields[1]].kind = "Constant"
    /\ ~(pass.on_constant = "replace" /\ source[source[t].fields[1]].data = 1)
C7_SharedUnchangedChild ==
    IsMutator =>
        \A t \in SourceNodes :
            (IsPairOfOneConstant(t) /\ roots = <<t>> /\ status = "idle") =>
                LET c == source[t].fields[1]
                IN  /\ result = t
                    /\ heap = source
                    /\ DOMAIN memo_ = {c, t}
                    /\ memo_[c] = c /\ memo_[t] = t
                    /\ memo_writes[c] = 1 /\ runs[c] = 1 /\ calls[c] = 2
C7_Witness ==
    /\ IsMutator /\ status = "idle"
    /\ \E t \in SourceNodes :
        /\ IsPairOfOneConstant(t) /\ roots = <<t>> /\ result = t
        /\ memo_writes[source[t].fields[1]] = 1 /\ calls[source[t].fields[1]] = 2

(***************************************************************************)
(* C8.  Targeted rebuild (as claimed): a subtree in which the pass changes *)
(* nothing is never copied, so when some child of a node changes, the      *)
(* result is a new node of the same kind whose slot for a changed child    *)
(* holds the rewritten child and whose slot for every child with an        *)
(* unchanged subtree holds the original child.                             *)
(***************************************************************************)
\* the pass has nothing to change at a node of this content
PassLeaves(nd) ==
    CASE nd.kind = "Constant" -> ~(pass.on_constant = "replace" /\ nd.data = 1)
      [] nd.kind = "Var" ->
            pass.on_var = "base" /\ VisitType(pass, nd.type_annotation) = nd.type_annotation
      [] nd.kind = "Function" ->
            /\ RewrittenTypes(nd.type_params.items) = nd.type_params.items
            /\ VisitType(pass, nd.ret_type) = nd.ret_type
      [] nd.kind = "Call" -> RewrittenTypes(nd.type_args) = nd.type_args
      [] OTHER -> TRUE
UnchangedSubtree(c) == \A d \in ReachFrom(c) : PassLeaves(source[d])
C8_TargetedRebuild ==
    IsMutator =>
        \A n \in DOMAIN memo_ :
            LET ch == ExprChildren(source[n])
            IN  (\E i \in DOMAIN ch : ~UnchangedSubtree(ch[i])) =>
                    /\ IsNew(memo_[n])
                    /\ heap[memo_[n]].kind = source[n].kind
                    /\ \A i \in DOMAIN ch :
                          ExprChildren(heap[memo_[n]])[i] =
                              IF UnchangedSubtree(ch[i]) THEN ch[i] ELSE memo_[ch[i]]

(***************************************************************************)
(* C9.  Fatal contract check: when the rewrite of a Function parameter or  *)
(* of a Let's bound variable is not a Var, the mutation aborts at that     *)
(* call site: no handler proceeds past such a result, no Function or Let   *)
(* is ever built on a non-Var binder, the aborted call returns no result,  *)
(* and nothing runs after the abort.                                       *)
(***************************************************************************)
Binders(nd) ==
    CASE nd.kind = "Function" -> Range(nd.params.items)
      [] nd.kind = "Let" -> {nd.var}
      [] OTHER -> {}
C9_NoMalformedBinder ==
    IsMutator =>
        /\ \A m \in DOMAIN heap : \A b \in Binders(heap[m]) : heap[b].kind = "Var"
        /\ \A k \in DOMAIN stack :
              LET ops == MutatorOps(pass, source[stack[k].node])
              IN  \A i \in DOMAIN stack[k].res :
                      ops[i].cast = "Var" => heap[stack[k].res[i]].kind = "Var"
        /\ \A n \in DOMAIN memo_ :
              \A b \in Binders(source[n]) : heap[memo_[b]].kind = "Var"
\* a step that hands a non-Var to the handler waiting at a Downcast<Var>
BadBinderStep ==
    /\ IsMutator /\ status = "running"
    /\ \/ /\ MutatorCur.k = "expr" /\ MutatorCur.cast = "Var"
          /\ MutatorCur.x \in DOMAIN memo_
          /\ heap[memo_[MutatorCur.x]].kind # "Var"
       \/ /\ MutatorCur.k = "ret" /\ Len(stack) >= 2
          /\ FrameOp(MutatorOps(pass, source[stack[Len(stack) - 1].node]),
                     stack[Len(stack) - 1]).cast = "Var"
          /\ heap'[memo_'[Top(stack).node]].kind # "Var"
C9_AbortStep ==
    /\ status # "aborted"
    /\ BadBinderStep =>
          /\ status' = "aborted"
          /\ result' = result
          /\ \A k \in DOMAIN stack' : stack'[k].node \notin DOMAIN memo_'
C9_FatalContractCheck == [](C9_NoMalformedBinder) /\ [][C9_AbortStep]_vars
\* a mutation aborted in a Function handler at the Downcast of a parameter
C9_Witness ==
    /\ IsMutator /\ status = "aborted"
    /\ source[Top(stack).node].kind = "Function"
    /\ MutatorCur.k = "expr" /\ MutatorCur.cast = "Var"
    /\ heap[memo_[MutatorCur.x]].kind # "Var"

(***************************************************************************)
(* History notions used by the order properties.                           *)
(***************************************************************************)
\* the position at which the handler of x started, among all handler starts
OrderPos(x) == CHOOSE i \in DOMAIN order : order[i] = x
Started(x) == x \in Range(order)
\* the calls of VisitExpr / VisitType that the handler of n made, in order
CallsBy(n) ==
    LET mine == SelectSeq(events, LAMBDA e : e.caller = n)
    IN  [i \in DOMAIN mine |-> [k |-> mine[i].k, x |-> mine[i].x]]
ExprCall(x) == [k |-> "expr", x |-> x]
TypeCall(t) == [k |-> "type", x |-> t]
ExprCalls(xs) == [i \in DOMAIN xs |-> ExprCall(xs[i])]
TypeCalls(ts) == [i \in DOMAIN ts |-> TypeCall(ts[i])]
\* n is an If over three distinct sub-expressions that a fresh visitor was
\* first called on, and the callbacks of all three have run
IfVisitedFirst(n) ==
    /\ IsVisitor
    /\ source[n].kind = "If"
    /\ Cardinality({source[n].cond, source[n].true_branch, source[n].false_branch}) = 3
    /\ roots # <<>> /\ roots[1] = n
    /\ Started(source[n].cond) /\ Started(source[n].true_branch)
    /\ Started(source[n].false_branch)

(***************************************************************************)
(* C11.  If visitation order.                                              *)
(***************************************************************************)
\* C11 as stated: for an If(cond, t, f) over three distinct sub-expressions,
\* one possibly a sub-expression of another, visited by a fresh visitor, the
\* callback of cond runs before that of t, and that of t before that of f.
C11_IfCallbackOrder ==
    \A n \in SourceNodes : IfVisitedFirst(n) =>
        /\ OrderPos(source[n].cond) < OrderPos(source[n].true_branch)
        /\ OrderPos(source[n].true_branch) < OrderPos(source[n].false_branch)

\* C11, amended: the If handler calls VisitExpr on cond, then t, then f; for
\* an If over three distinct sub-expressions visited by a fresh visitor the
\* callback of cond runs before those of t and f, and the callback of t runs
\* before that of f unless f is a sub-expression of cond (f's callback then
\* runs during the traversal of cond; it runs before t's whenever t is not a
\* sub-expression of cond as well).
C11_IfOrderUnlessNested ==
    /\ \A n \in SourceNodes :
          (IsVisitor /\ source[n].kind = "If" /\ n \in DOMAIN visit_counter_) =>
              CallsBy(n) = ExprCalls(<<source[n].cond, source[n].true_branch,
                                       source[n].false_branch>>)
    /\ \A n \in SourceNodes : IfVisitedFirst(n) =>
          LET c == source[n].cond
              t == source[n].true_branch
              f == source[n].false_branch
          IN  /\ OrderPos(c) < OrderPos(t)
              /\ OrderPos(c) < OrderPos(f)
              /\ f \notin ReachFrom(c) => OrderPos(t) < OrderPos(f)
              /\ (f \in ReachFrom(c) /\ t \notin ReachFrom(c)) => OrderPos(f) < OrderPos(t)

\* an If whose false branch is a sub-expression of its condition, and whose
\* true branch is not, has been visited to the end by a fresh visitor
C11_Witness ==
    \E n \in SourceNodes :
        /\ IfVisitedFirst(n)
        /\ status = "idle"
        /\ source[n].false_branch \in ReachFrom(source[n].cond)
        /\ source[n].true_branch \notin ReachFrom(source[n].cond)

(***************************************************************************)
(* C12.  Let traversal order: value, var, body in the visitor; var, value, *)
(* body in the mutator.                                                    *)
(***************************************************************************)
\* the handler of Let n is in progress
LetInProgress(n) ==
    source[n].kind = "Let" /\ \E i \in DOMAIN stack : stack[i].node = n
\* the calls a finished Let handler has made: visitor and mutator
LetCallOrder ==
    \A n \in SourceNodes : source[n].kind = "Let" =>
        /\ (IsVisitor /\ n \in DOMAIN visit_counter_) =>
              CallsBy(n) = ExprCalls(<<source[n].value, source[n].var, source[n].body>>)
        /\ (IsMutator /\ n \in DOMAIN memo_) =>
              CallsBy(n) = ExprCalls(<<source[n].var, source[n].value, source[n].body>>)
\* mutator: of the nodes whose handlers start while the handler of a Let runs,
\* a var not seen before comes before every node of the value subtree
MutatorVarFirst ==
    \A n \in SourceNodes : (IsMutator /\ LetInProgress(n)) =>
        LET v == source[n].var
        IN  \A m \in ReachFrom(source[n].value) \ {v} :
                (Started(m) /\ OrderPos(n) < OrderPos(m)
                 /\ (Started(v) => OrderPos(n) < OrderPos(v)))
                    => (Started(v) /\ OrderPos(v) < OrderPos(m))

C13_MemoKeys ==
    IsMutator =>
        /\ DOMAIN memo_ \subseteq SourceNodes
        /\ \A n \in DOMAIN memo_ : ~IsNew(n) /\ calls[n] >= 1
        /\ \A n \in SourceNodes :
              memo_writes[n] = (IF n \in DOMAIN memo_ THEN 1 ELSE 0)
\* no step removes or overwrites an entry, and a step adds at most one
C13_MemoStepKeeps ==
    /\ \A n \in DOMAIN memo_ : n \in DOMAIN memo_' /\ memo_'[n] = memo_[n]
    /\ Cardinality(DOMAIN memo_' \ DOMAIN memo_) <= 1
\* C13: over any sequence of Mutate calls on one instance, an entry of the
\* memo once written for a source node is never overwritten or removed, each
\* key is written at most once, and the keys are source nodes on which Mutate
\* was called (the original, not the rewritten node).
C13_MemoSetOnce == [](C13_MemoKeys) /\ [][C13_MemoStepKeeps]_vars

\* a second Mutate call has hit an entry that maps a source node to a node
\* built by the pass
C13_Witness ==
    /\ IsMutator /\ Len(roots) = 2 /\ status = "idle"
    /\ \E n \in DOMAIN memo_ : IsNew(memo_[n]) /\ calls[n] >= 2 /\ memo_writes[n] = 1

(***************************************************************************)
(* C14.  The source graph is left unchanged.                               *)
(***************************************************************************)
\* every node the pass was given is as it was: kind, children, types, attributes
C14_SourceIntact ==
    IsMutator =>
        /\ Len(heap) >= Len(source)
        /\ \A n \in SourceNodes : heap[n] = source[n]
\* a step changes the graph only by adding newly constructed nodes
C14_OnlyNewNodes ==
    /\ Len(heap') >= Len(heap)
    /\ \A n \in DOMAIN heap : heap'[n] = heap[n]
\* C14: after any Mutate call, whether it returned or aborted, every
\* pre-existing node has the kind, children and attributes it had before; a
\* change is only ever expressed by a newly constructed node.
C14_SourceUnchanged == [](C14_SourceIntact) /\ [][C14_OnlyNewNodes]_vars

\* a Mutate call that had already built a node has aborted
C14_Witness ==
    /\ IsMutator /\ status = "aborted"
    /\ Len(heap) > Len(source)
    /\ \A n \in SourceNodes : heap[n] = source[n]

(***************************************************************************)
(* C15.  Visitor: child order and type-hook coverage of Function and Call. *)
(***************************************************************************)
\* s is an initial part of t
IsPrefix(s, t) == Len(s) <= Len(t) /\ s = SubSeq(t, 1, Len(s))
\* the calls the claim states for a Function and for a Call
StatedCalls(nd) ==
    IF nd.kind = "Function"
    THEN ExprCalls(nd.params.items) \o <<ExprCall(nd.body)>>
    ELSE <<ExprCall(nd.op)>> \o TypeCalls(nd.type_args) \o ExprCalls(nd.args)
\* C15: the default visitor visits a Function's parameters in order and then
\* its body, and never passes the Function's type parameters or return type
\* to the type hook; for a Call it visits the callee, then passes each type
\* argument in order to the type hook, then visits each argument in order.
C15_FunctionCallOrder ==
    IsVisitor =>
        \A n \in SourceNodes : source[n].kind \in {"Function", "Call"} =>
            /\ IsPrefix(CallsBy(n), StatedCalls(source[n]))
            /\ n \in DOMAIN visit_counter_ => CallsBy(n) = StatedCalls(source[n])

\* a Call with two type arguments and two arguments, of a Function with two
\* parameters, a type parameter and a return type, has been visited to the end
C15_Witness ==
    /\ IsVisitor /\ status = "idle"
    /\ \E n \in DOMAIN visit_counter_ :
          /\ source[n].kind = "Call"
          /\ Len(source[n].type_args) = 2 /\ Len(source[n].args) = 2
          /\ source[source[n].op].kind = "Function"
          /\ Len(source[source[n].op].params.items) = 2
          /\ source[source[n].op].type_params.items # <<>>
          /\ source[source[n].op].ret_type # NoType
          /\ source[n].op \in DOMAIN visit_counter_

(***************************************************************************)
(* C16.  A rebuilt node copies its non-child data from the original.       *)
(***************************************************************************)
\* what a node holds besides its expression children and its types
NonChildData(nd) ==
    CASE nd.kind = "Var" -> <<nd.kind, nd.name_hint>>
      [] nd.kind = "Constant" -> <<nd.kind, nd.data>>
      [] nd.kind = "GlobalVar" -> <<nd.kind, nd.name_hint>>
      [] nd.kind = "Op" -> <<nd.kind, nd.name>>
      [] nd.kind \in {"Function", "Call"} -> <<nd.kind, nd.attrs>>
      [] nd.kind = "TupleGetItem" -> <<nd.kind, nd.index>>
      [] OTHER -> <<nd.kind>>
\* the node was built by a default handler (not by an override of the pass)
BuiltByDefault(e) ==
    /\ e \in DOMAIN made_by
    /\ source[made_by[e]].kind # "Constant"
    /\ source[made_by[e]].kind = "Var" => pass.on_var = "base"
\* C16: a node rebuilt by a default handler carries the non-child data of the
\* original: a rebuilt Function and a rebuilt Call the original attributes, a
\* rebuilt TupleGetItem the original index, a rebuilt Var the original name
\* hint; only child and type slots can differ from the original.
C16_NonChildDataCopied ==
    IsMutator =>
        \A e \in DOMAIN made_by : BuiltByDefault(e) =>
            NonChildData(heap[e]) = NonChildData(source[made_by[e]])

\* a Var, a Function with attributes of its own and a Call of it have been
\* rebuilt in one completed Mutate call
C16_Witness ==
    /\ IsMutator /\ status = "idle"
    /\ \E v, f, c \in DOMAIN made_by :
          /\ BuiltByDefault(v) /\ source[made_by[v]].kind = "Var"
          /\ heap[v].type_annotation # source[made_by[v]].type_annotation
          /\ source[made_by[f]].kind = "Function" /\ v \in Range(heap[f].params.items)
          /\ heap[f].attrs = OtherAttrs
          /\ source[made_by[c]].kind = "Call" /\ heap[c].op = f

(***************************************************************************)
(* C17.  Termination with linear work.                                     *)
(***************************************************************************)
\* the handlers run so far are as many as the distinct nodes reachable from
\* the roots once the call has returned, and never more while it runs
C17_LinearWork ==
    /\ Len(order) <= Cardinality(Reached)
    /\ status = "idle" =>
          /\ Len(order) = Cardinality(Reached)
          /\ \A n \in SourceNodes : runs[n] = (IF n \in Reached THEN 1 ELSE 0)
\* C17: on every finite acyclic graph, visit(root) and mutate(root) with the
\* default handlers eventually complete, and the number of handler
\* invocations equals the number of distinct nodes reachable from root (not
\* the number of paths from root to a node).
C17_TerminatesLinear == [](C17_LinearWork) /\ (status = "running" ~> status = "idle")

\* a first call on a graph in which some node is reached along two paths has
\* returned after one handler run per reachable node
C17_Witness ==
    /\ status = "idle" /\ Len(roots) = 1
    /\ Len(order) = Cardinality(ReachFrom(roots[1]))
    /\ Len(order) >= 3
    /\ \E n \in ReachFrom(roots[1]) : calls[n] >= 2 /\ runs[n] = 1

(***************************************************************************)
(* C18.  The visitor's record only grows across calls.                     *)
(***************************************************************************)
\* no step removes an entry or lowers a counter
C18_RecordGrows ==
    \A n \in DOMAIN visit_counter_ :
        n \in DOMAIN visit_counter_' /\ visit_counter_'[n] >= visit_counter_[n]
\* the step is the driver's second visit of the root it visited first
SecondVisitOfRoot ==
    /\ IsVisitor /\ status = "idle"
    /\ Len(roots) = 1 /\ roots' = Append(roots, roots[1])
\* the second visit returns at once: no callback, no type hook call, and only
\* the root's counter changes, by one
C18_SecondVisitStep ==
    SecondVisitOfRoot =>
        /\ status' = "idle" /\ stack' = stack
        /\ runs' = runs /\ order' = order /\ type_log' = type_log
        /\ visit_counter_' = [visit_counter_ EXCEPT ![roots[1]] = @ + 1]
\* C18: entries of the visitor's record are never removed and counters never
\* decrease across calls on one instance, so a second visit(root) on the same
\* instance runs no callback for any node and changes only root's counter,
\* incrementing it by one.
C18_SeenRecordGrows == [][C18_RecordGrows /\ C18_SecondVisitStep]_vars

\* the root of a graph of three or more nodes has been visited twice
C18_Witness ==
    /\ IsVisitor /\ status = "idle"
    /\ Len(roots) = 2 /\ roots[1] = roots[2]
    /\ Cardinality(ReachFrom(roots[1])) >= 3
    /\ visit_counter_[roots[1]] = 2
    /\ \A n \in ReachFrom(roots[1]) : runs[n] = 1

(***************************************************************************)
(* C19.  Post-order recording.                                             *)
(***************************************************************************)
\* the nodes recorded by the functor: counter map of the visitor, memo of the
\* mutator
Recorded == IF IsVisitor THEN DOMAIN visit_counter_ ELSE DOMAIN memo_
InProgress == {stack[i].node : i \in DOMAIN stack}
\* C19: a node is entered into the visitor's counter map, and into the
\* mutator's memo, only after its own handler has returned: in every reachable
\* state every recorded node has all its descendants recorded, and a node
\* whose handler is still running is not in the map.
C19_PostOrderRecording ==
    /\ \A n \in Recorded : ReachFrom(n) \subseteq Recorded
    /\ InProgress \cap Recorded = {}
    /\ \A n \in Recorded : runs[n] = 1

\* two handlers are in progress, the inner one with a child already recorded
C19_Witness ==
    /\ status = "running" /\ Len(stack) >= 2
    /\ InProgress \cap Recorded = {}
    /\ \E c \in Range(ExprChildren(source[Top(stack).node])) : c \in Recorded

(***************************************************************************)
(* C20.  The memo at an abort on a failed Downcast<Var>.                   *)
(***************************************************************************)
\* the mutation has aborted at a Downcast<Var>: the innermost handler was at
\* the call that rewrites a parameter or a Let variable
AbortedOnVar ==
    IsMutator /\ status = "aborted" /\ MutatorCur.k = "expr" /\ MutatorCur.cast = "Var"
\* the memo holds nothing for the handlers in progress, and holds the results
\* of what was fully rewritten: the offending child's non-Var result, the
\* results the innermost handler had received, and all their descendants
C20_MemoAtAbort ==
    AbortedOnVar =>
        LET top == Top(stack)
            ops == MutatorOps(pass, heap[top.node])
        IN  /\ InProgress \cap DOMAIN memo_ = {}
            /\ MutatorCur.x \in DOMAIN memo_
            /\ heap[memo_[MutatorCur.x]].kind # "Var"
            /\ \A i \in 1..(top.pc - 1) :
                  ops[i].k = "expr" =>
                      ops[i].x \in DOMAIN memo_ /\ memo_[ops[i].x] = top.res[i]
            /\ \A d \in DOMAIN memo_ : ReachFrom(d) \subseteq DOMAIN memo_
\* the aborting step leaves every entry written before it as it was
C20_AbortKeepsEntries ==
    status' = "aborted" =>
        \A k \in DOMAIN memo_ : k \in DOMAIN memo_' /\ memo_'[k] = memo_[k]
\* C20: when a mutation aborts on a failed Var downcast while rewriting node
\* n, the memo has no entry for n or for any ancestor whose handler was in
\* progress, while the entries already written for fully rewritten
\* descendants, the offending parameter's non-Var result included, remain in
\* the memo unchanged.
C20_StateAtAbort == [](C20_MemoAtAbort) /\ [][C20_AbortKeepsEntries]_vars

\* a mutation has aborted below two handlers in progress, after the offending
\* variable was rewritten to a Constant by its own handler in this call
C20_Witness ==
    /\ AbortedOnVar /\ Len(stack) >= 2
    /\ heap[memo_[MutatorCur.x]].kind = "Constant"
    /\ calls[MutatorCur.x] = 1
    /\ InProgress \cap DOMAIN memo_ = {}

=============================================================================
